---- MODULE Spec2Model ----
(***************************************************************************)
(* A model of the gin-pow middleware (src/gin_pow.go): construction by     *)
(* New, the handling of one request at a time by VerifyNonceMiddleware     *)
(* followed by the next handler of the pipeline, and the issuance of       *)
(* nonces by GenerateNonceMiddleware, NonceHeaderMiddleware and            *)
(* NonceHandler.                                                           *)
(*                                                                         *)
(* A Go string is the sequence of its bytes, so []byte(s) is s itself.     *)
(* Response bodies and reasons are opaque and kept as TLA+ strings.        *)
(***************************************************************************)
EXTENDS Integers, Sequences, FiniteSets, TLC

VARIABLES
    given,        \* the configuration the last call of New was given
    pow,          \* the *Middleware returned by New, or Nil
    newErr,       \* the error returned by the last call of New ("" for nil)
    pc,           \* position of the request in the pipeline
    req,          \* what each extractor does on the request in flight
    c,            \* the request's *gin.Context
    calls,        \* the extractors invoked for the request, in order
    proofChecks,  \* the arguments of each call of Pow.VerifyHashAtDifficulty
    hookCalls,    \* the errors OnFailedVerification was invoked with
    path,         \* the return statement VerifyNonceMiddleware left through
    nextRan,      \* whether the handler after VerifyNonceMiddleware ran
    issued,       \* the issuance handlers run for the request, in order
    served        \* the first verification answered, and the requests since

vars == <<given, pow, newErr, pc, req, c, calls, proofChecks, hookCalls, path, nextRan,
          issued, served>>

\* ------------------------------------------------------------------ bounds

\* Configured difficulties range over 0..MaxDifficulty.
MaxDifficulty == 2

\* Client-chosen hash and checksum fields are all strings over FieldChars of
\* at most this length, together with the values an honest client computes.
MaxFieldLen == 2

\* A route holds at most this many issuance handlers.
MaxChain == 2

\* ----------------------------------------------------------------- strings

Nil == "nil"

Str(chars, n) == UNION {[1..k -> chars] : k \in 0..n}

\* "0" and "g": a hexadecimal digit and a letter that is none.
FieldChars == {48, 103}

\* "" and "n"
Nonces == {<<>>, <<110>>}

\* "" and "e"
Datas == {<<>>, <<101>>}

\* ---------------------------------------------------------------- encoding

\* "0123456789abcdef"
hextable == <<48, 49, 50, 51, 52, 53, 54, 55, 56, 57, 97, 98, 99, 100, 101, 102>>

IsHexChar(ch) ==
    \/ ch \in 48..57
    \/ ch \in 97..102
    \/ ch \in 65..70

fromHexChar(ch) ==
    IF ch \in 48..57 THEN ch - 48
    ELSE IF ch \in 97..102 THEN ch - 97 + 10
    ELSE ch - 65 + 10

\* hex.DecodeString returns an error for a string of odd length or one that
\* holds a byte that is no hexadecimal digit.
DecodeOk(s) == Len(s) % 2 = 0 /\ \A i \in 1..Len(s) : IsHexChar(s[i])

DecodeString(s) ==
    [i \in 1..(Len(s) \div 2) |-> fromHexChar(s[2 * i - 1]) * 16 + fromHexChar(s[2 * i])]

EncodeToString(b) ==
    [i \in 1..(2 * Len(b)) |->
        IF i % 2 = 1 THEN hextable[(b[(i + 1) \div 2] \div 16) + 1]
        ELSE hextable[(b[i \div 2] % 16) + 1]]

\* ------------------------------------------------------- the proof of work

\* Middleware.Hash is configurable.  The model configures a one-byte digest:
\* a multiplicative fold of the input bytes.
RECURSIVE HashFold(_, _)
HashFold(h, b) ==
    IF b = <<>> THEN h ELSE HashFold((h * 7 + Head(b)) % 256, Tail(b))

Hash(b) == <<HashFold(5, b)>>

\* bin.startsWith("0".repeat(difficulty)), bin the 8-bit binary expansion of
\* the hash bytes: the zero bits before the first set bit.
ByteLeadingZeros(b) ==
    IF b >= 128 THEN 0
    ELSE IF b >= 64 THEN 1
    ELSE IF b >= 32 THEN 2
    ELSE IF b >= 16 THEN 3
    ELSE IF b >= 8 THEN 4
    ELSE IF b >= 4 THEN 5
    ELSE IF b >= 2 THEN 6
    ELSE IF b >= 1 THEN 7
    ELSE 8

RECURSIVE LeadingZeroBits(_)
LeadingZeroBits(h) ==
    IF h = <<>> THEN 0
    ELSE IF Head(h) = 0 THEN 8 + LeadingZeroBits(Tail(h))
    ELSE ByteLeadingZeros(Head(h))

\* Mutant: the threshold itself is not enough.
MeetsDifficultyStrict(h, d) == LeadingZeroBits(h) > d

MeetsDifficulty(h, d) == LeadingZeroBits(h) >= d

\* Digest(nonce || secret)
ComputeChecksum(secret, nonce) == Hash(nonce \o secret)

\* gopow.Pow.VerifyHashAtDifficulty: the checksum first (when checked), then
\* the hash, which is the digest of data || nonce with enough leading zero
\* bits.  The result is (ok, error).
VerifyHashAtDifficulty(p, nonce, data, hash, nonceChecksum) ==
    IF p.Check /\ nonceChecksum # ComputeChecksum(p.Secret, nonce)
        THEN [ok |-> FALSE, reason |-> "checksum invalid"]
    ELSE IF hash # Hash(data \o nonce)
        THEN [ok |-> FALSE, reason |-> "hash invalid"]
    ELSE IF ~MeetsDifficulty(hash, p.Difficulty)
        THEN [ok |-> FALSE, reason |-> "difficulty not met"]
    ELSE [ok |-> TRUE, reason |-> ""]

\* ------------------------------------------------------------- gin.Context

\* Keys is the request's key/value store and header the header of the
\* response, both maps from a name to a value.
NewContext ==
    [aborted |-> FALSE, writes |-> <<>>, errors |-> <<>>, Keys |-> <<>>, header |-> <<>>]

Abort(ctx) == [ctx EXCEPT !.aborted = TRUE]

IsAborted(ctx) == ctx.aborted

\* c.String(code, body)
String(ctx, code, body) ==
    [ctx EXCEPT !.writes = Append(@, [code |-> code, body |-> body])]

\* c.Error(err)
Error(ctx, err) == [ctx EXCEPT !.errors = Append(@, err)]

\* c.AbortWithError(code, err): AbortWithStatus(code), then Error(err)
AbortWithError(ctx, code, err) == Error(Abort(String(ctx, code, "")), err)

\* c.Set(key, value)
Set(ctx, key, value) == [ctx EXCEPT !.Keys = (key :> value) @@ @]

\* c.Get(key): (value, exists)
Get(ctx, key) ==
    IF key \in DOMAIN ctx.Keys THEN [v |-> ctx.Keys[key], exists |-> TRUE]
    ELSE [v |-> Nil, exists |-> FALSE]

\* c.Header(key, value): sets the header of the response, and deletes it
\* when the value is empty.
Header(ctx, key, value) ==
    [ctx EXCEPT !.header =
        IF value = <<>> THEN [k \in DOMAIN @ \ {key} |-> @[k]]
        ELSE (key :> value) @@ @]

\* c.GetHeader(key) on the headers of a request
GetHeader(headers, key) == IF key \in DOMAIN headers THEN headers[key] ELSE <<>>

\* The formats Negotiate is called with: gin.MIMEJSON, gin.MIMEXML
Offered == {"application/json", "application/xml"}

\* c.Negotiate(code, gin.Negotiate{Offered, Data}): the data in an offered
\* format the request accepts, and AbortWithError(406) when there is none.
Negotiate(ctx, code, accepted, data) ==
    IF accepted \in Offered THEN String(ctx, code, data)
    ELSE AbortWithError(ctx, 406, [Reason |-> "the accepted formats are not offered by the server"])

\* strconv.Itoa of a natural number: its decimal digits.
RECURSIVE Itoa(_)
Itoa(n) == IF n < 10 THEN <<48 + n>> ELSE Append(Itoa(n \div 10), 48 + (n % 10))

\* ---------------------------------------------------------------------- New

\* len of the secret New generates: gonanoid.ID(32)
SecretLength == 32

DefaultFailureStatusCode == 428

\* What gonanoid.ID returns: an id of the length asked for, or an error.
GeneratedIDs(n) == {[id |-> [i \in 1..n |-> 120], err |-> FALSE],
                    [id |-> <<>>, err |-> TRUE]}

\* The handlers an integrator may configure as OnFailedVerification, besides
\* none: one that aborts and answers with a status of its own, and one
\* that only records the failure and lets the request through.
CustomHandlers == {"respond", "log"}

\* The name-valued fields of Middleware, with the values middleWareInit
\* gives them when they are empty and with the names an integrator chooses.
NameFields ==
    {"NonceHeader", "NonceChecksumHeader", "HashDifficultyHeader",
     "NonceContextKey", "NonceChecksumContextKey", "HashDifficultyContextKey",
     "NonceDataKey", "NonceChecksumDataKey", "HashDifficultyDataKey"}

DefaultNames ==
    [NonceHeader |-> "X-Nonce",
     NonceChecksumHeader |-> "X-Nonce-Checksum",
     HashDifficultyHeader |-> "X-Hash-Difficulty",
     NonceContextKey |-> "nonce",
     NonceChecksumContextKey |-> "nonceChecksum",
     HashDifficultyContextKey |-> "hashDifficulty",
     NonceDataKey |-> "nonce",
     NonceChecksumDataKey |-> "nonce_checksum",
     HashDifficultyDataKey |-> "difficulty"]

CustomNames ==
    [NonceHeader |-> "X-Pow-Nonce",
     NonceChecksumHeader |-> "X-Pow-Checksum",
     HashDifficultyHeader |-> "X-Pow-Difficulty",
     NonceContextKey |-> "powNonce",
     NonceChecksumContextKey |-> "powChecksum",
     HashDifficultyContextKey |-> "powDifficulty",
     NonceDataKey |-> "pow_nonce",
     NonceChecksumDataKey |-> "pow_checksum",
     HashDifficultyDataKey |-> "pow_difficulty"]

\* The names of a configuration that sets the fields of S and leaves the
\* others empty.
Named(S) == [f \in NameFields |-> IF f \in S THEN CustomNames[f] ELSE ""]

DefaultNonceLength == 10

\* The settings of a configuration besides its names.  A function-valued
\* field is TRUE or "custom" when it is set and FALSE or Nil when it is nil.
Settings(extractAll, extractors, codes, handlers, lengths) ==
    [ExtractAll : extractAll,
     ExtractData : BOOLEAN,
     ExtractNonce : extractors,
     ExtractHash : extractors,
     Check : BOOLEAN,
     Secret : {<<>>, <<115>>},
     Difficulty : 0..MaxDifficulty,
     NonceLength : lengths,
     FailureStatusCode : codes,
     OnFailedVerification : handlers,
     Pow : {Nil}]

\* The configurations New is called with on the verification routes: the
\* integrator supplies the extractors and keeps the default names.
Configs ==
    {m @@ Named({}) :
        m \in Settings(BOOLEAN, {"custom"}, {0, 403}, {Nil} \cup CustomHandlers, {0})}

\* The configurations New is called with on the issuance routes: the
\* three extractors, ExtractNonce and ExtractHash set or left to their
\* defaults, and the names all set or all left empty.
IssuerConfigs ==
    {m @@ names :
        m \in {s \in Settings({FALSE}, {Nil, "custom"}, {0}, {Nil}, {0, 2}) : s.ExtractData},
        names \in {Named({}), Named(NameFields)}}

\* Every combination of settings, with no name set, one name set or all.
AllConfigs ==
    {m @@ Named(S) :
        m \in Settings(BOOLEAN, {Nil, "custom"}, {0, 403}, {Nil} \cup CustomHandlers, {0, 2}),
        S \in {T \in SUBSET NameFields : Cardinality(T) <= 1 \/ T = NameFields}}

\* Mutant: ExtractAll does not stand in for ExtractData.
MissingExtractorDataOnly(m) == ~m.ExtractData

\* pow.ExtractData == nil && pow.ExtractAll == nil
MissingExtractor(m) == ~m.ExtractData /\ ~m.ExtractAll

\* Mutant: the default replaces what the caller set.
OrDefaultAlways(v, zero, default) == default

\* if pow.X == zero { pow.X = default }
OrDefault(v, zero, default) == IF v = zero THEN default ELSE v

\* Mutant: a secret is generated whether or not Check is set.
NeedsSecretUnchecked(m) == m.Secret = <<>>

\* if pow.Check { if pow.Secret == "" { ... } }
NeedsSecret(m) == m.Check /\ m.Secret = <<>>

\* Mutant: the configured difficulty is not handed to the library.
NewPowNoDifficulty(m, secret, nonceLength) ==
    [Secret |-> secret, Check |-> m.Check, Difficulty |-> 0, NonceLength |-> nonceLength]

\* gopow.New(&gopow.Pow{Secret, Check, Difficulty, NonceLength, ...})
NewPow(m, secret, nonceLength) ==
    [Secret |-> secret,
     Check |-> m.Check,
     Difficulty |-> m.Difficulty,
     NonceLength |-> nonceLength]

\* The result of middleWareInit on m: the error ("" for nil) and m as the
\* call leaves it.
middleWareInit(m, gen) ==
    IF MissingExtractor(m)
        THEN [err |-> "pow.ExtractData func not declared", m |-> m]
    ELSE IF NeedsSecret(m) /\ gen.err
        THEN [err |-> "gonanoid", m |-> m]
    ELSE
        LET secret == IF NeedsSecret(m) THEN gen.id ELSE m.Secret
            nonceLength == OrDefault(m.NonceLength, 0, DefaultNonceLength)
            names == [f \in NameFields |-> OrDefault(m[f], "", DefaultNames[f])]
        IN  [err |-> "",
             m |-> names @@
                   [m EXCEPT
                        !.ExtractNonce = OrDefault(@, Nil, "default"),
                        !.ExtractHash = OrDefault(@, Nil, "default"),
                        !.Secret = secret,
                        !.NonceLength = nonceLength,
                        !.Pow = NewPow(m, secret, nonceLength),
                        !.FailureStatusCode = OrDefault(@, 0, DefaultFailureStatusCode),
                        !.OnFailedVerification = OrDefault(@, Nil, "default")]]

\* New(m): (nil, err) when middleWareInit fails, (m, nil) otherwise.
Construct(m, gen) ==
    LET r == middleWareInit(m, gen)
    IN  /\ given' = m
        /\ newErr' = r.err
        /\ pow' = IF r.err # "" THEN Nil ELSE r.m
        /\ pc' = IF r.err # "" THEN "failed" ELSE "idle"

New ==
    /\ pc \in {"new", "failed"}
    /\ \E m \in Configs, gen \in GeneratedIDs(SecretLength) : Construct(m, gen)
    /\ UNCHANGED <<req, c, calls, proofChecks, hookCalls, path, nextRan, issued, served>>

\* New on the configuration of an issuance route.
NewIssuer ==
    /\ pc \in {"new", "failed"}
    /\ \E m \in IssuerConfigs, gen \in GeneratedIDs(SecretLength) : Construct(m, gen)
    /\ UNCHANGED <<req, c, calls, proofChecks, hookCalls, path, nextRan, issued, served>>

\* New on the configuration the caller holds.
NewGiven ==
    /\ pc = "new"
    /\ \E gen \in GeneratedIDs(SecretLength) : Construct(given, gen)
    /\ UNCHANGED <<req, c, calls, proofChecks, hookCalls, path, nextRan, issued, served>>

\* ------------------------------------------------------------ the request

\* What an extractor does: it returns its values, or it returns an error,
\* after aborting the request with a status of its own or without.
Behaviours == {"ok", "err", "abort"}

\* The hash and the checksum a client sends: any short string, or the
\* lower-case hexadecimal encoding of the digest it computed.
HashFields(nonce, data) ==
    Str(FieldChars, MaxFieldLen) \cup {EncodeToString(Hash(data \o nonce))}

ChecksumFields(secret, nonce) ==
    Str(FieldChars, MaxFieldLen) \cup {EncodeToString(ComputeChecksum(secret, nonce))}

Returns(b, values, zero) ==
    [err |-> b # "ok", aborts |-> b = "abort", v |-> IF b = "ok" THEN values ELSE zero]

\* A request arrives at the route of VerifyNonceMiddleware.
Receive ==
    /\ pc = "idle"
    /\ \E n \in Nonces, d \in Datas :
       \E cs \in ChecksumFields(pow.Secret, n), h \in HashFields(n, d) :
          IF pow.ExtractAll
          THEN \E b \in Behaviours :
                 req' = [all |-> Returns(b,
                            [nonce |-> n, nonceChecksum |-> cs, data |-> d, hash |-> h],
                            [nonce |-> <<>>, nonceChecksum |-> <<>>, data |-> <<>>, hash |-> <<>>])]
          ELSE \E bn \in Behaviours, bd \in Behaviours, bh \in Behaviours :
                 req' = [nonce |-> Returns(bn, [nonce |-> n, nonceChecksum |-> cs],
                                               [nonce |-> <<>>, nonceChecksum |-> <<>>]),
                         data |-> Returns(bd, [data |-> d], [data |-> <<>>]),
                         hash |-> Returns(bh, [hash |-> h], [hash |-> <<>>])]
    /\ c' = NewContext
    /\ calls' = <<>>
    /\ proofChecks' = <<>>
    /\ hookCalls' = <<>>
    /\ path' = ""
    /\ nextRan' = FALSE
    /\ pc' = "received"
    /\ UNCHANGED <<given, pow, newErr, issued, served>>

\* --------------------------------------------------- VerifyNonceMiddleware

\* The error value an extractor returns.
ExtractorError == [Reason |-> "extractor error"]

\* An extractor that aborts does c.AbortWithStatus before it returns.
Invoke(ctx, r) == IF r.aborts THEN Abort(String(ctx, 401, "")) ELSE ctx

\* What one run of VerifyNonceMiddleware leaves: the context, the extractors
\* called, the return statement reached, the proof checks run and the
\* invocations of OnFailedVerification.
Return(ctx, cl, p) ==
    [c |-> ctx, calls |-> cl, path |-> p, proofChecks |-> <<>>, hookCalls |-> <<>>]

\* Mutant: the 500 is written without asking c.IsAborted().
ExtractionFailedUnguarded(ctx, cl) ==
    Return(AbortWithError(ctx, 500, ExtractorError), cl, "extraction failed")

\* if err != nil { if !c.IsAborted() { c.AbortWithError(500, err) }; return }
ExtractionFailed(ctx, cl) ==
    Return(IF ~IsAborted(ctx) THEN AbortWithError(ctx, 500, ExtractorError) ELSE ctx,
           cl, "extraction failed")

\* Mutant: the 400 is written and the request is not aborted.
BadRequestNoAbort(ctx, cl, body) == Return(String(ctx, 400, body), cl, body)

\* Mutant: a malformed request is handed to OnFailedVerification.
BadRequestThroughHook(ctx, cl, body) ==
    [c |-> Abort(String(ctx, 400, body)), calls |-> cl, path |-> body,
     proofChecks |-> <<>>, hookCalls |-> <<[Reason |-> body]>>]

\* c.String(400, body); c.Abort(); return
BadRequest(ctx, cl, body) == Return(Abort(String(ctx, 400, body)), cl, body)

\* Mutant: the default handler answers and does not abort.
OnFailedVerificationNoAbort(m, ctx, err) ==
    CASE m.OnFailedVerification = "default" ->
            String(ctx, m.FailureStatusCode, err.Reason)
      [] m.OnFailedVerification = "respond" ->
            String(Abort(ctx), 429, "slow down")
      [] m.OnFailedVerification = "log" -> ctx

\* The configured OnFailedVerification; the default one is set by
\* middleWareInit.
OnFailedVerification(m, ctx, err) ==
    CASE m.OnFailedVerification = "default" ->
            String(Abort(ctx), m.FailureStatusCode, err.Reason)
      [] m.OnFailedVerification = "respond" ->
            String(Abort(ctx), 429, "slow down")
      [] m.OnFailedVerification = "log" -> ctx

\* Mutant: the nonce and its checksum change places.
VerificationErrorSwapped(m, hash, nonce, nonceChecksum, reason) ==
    [Hash |-> hash,
     Nonce |-> nonceChecksum,
     NonceChecksum |-> nonce,
     Difficulty |-> m.Difficulty,
     Reason |-> reason]

VerificationError(m, hash, nonce, nonceChecksum, reason) ==
    [Hash |-> hash,
     Nonce |-> nonce,
     NonceChecksum |-> nonceChecksum,
     Difficulty |-> m.Difficulty,
     Reason |-> reason]

\* The arguments of one call of Pow.VerifyHashAtDifficulty.
Checked(nonce, nonceChecksum, data, hash) ==
    [nonce |-> nonce, data |-> data, hash |-> DecodeString(hash),
     nonceChecksum |-> DecodeString(nonceChecksum)]

\* The handler returns with nothing done.
Passed(ctx, cl, checked) ==
    [c |-> ctx, calls |-> cl, path |-> "passed",
     proofChecks |-> <<checked>>, hookCalls |-> <<>>]

\* c.Error(err); pow.OnFailedVerification(c, err)
Rejected(m, ctx, cl, checked, err) ==
    [c |-> OnFailedVerification(m, Error(ctx, err), err), calls |-> cl,
     path |-> "rejected", proofChecks |-> <<checked>>, hookCalls |-> <<err>>]

\* Mutant: if ok { ... } for if !ok { ... }.
ProofCheckInverted(m, ctx, cl, nonce, nonceChecksum, data, hash) ==
    LET k == Checked(nonce, nonceChecksum, data, hash)
        v == VerifyHashAtDifficulty(m.Pow, k.nonce, k.data, k.hash, k.nonceChecksum)
    IN  IF v.ok
        THEN Rejected(m, ctx, cl, k,
                      VerificationError(m, hash, nonce, nonceChecksum, v.reason))
        ELSE Passed(ctx, cl, k)

\* ok, verificationErr := pow.Pow.VerifyHashAtDifficulty(...); if !ok { ... }
ProofCheck(m, ctx, cl, nonce, nonceChecksum, data, hash) ==
    LET k == Checked(nonce, nonceChecksum, data, hash)
        v == VerifyHashAtDifficulty(m.Pow, k.nonce, k.data, k.hash, k.nonceChecksum)
    IN  IF ~v.ok
        THEN Rejected(m, ctx, cl, k,
                      VerificationError(m, hash, nonce, nonceChecksum, v.reason))
        ELSE Passed(ctx, cl, k)

\* Mutant: the error of decoding the checksum is dropped, and the bytes
\* decoded are none.
DecodeAndVerifyHashOnly(m, ctx, cl, nonce, nonceChecksum, data, hash) ==
    IF ~DecodeOk(hash)
        THEN BadRequest(ctx, cl, "received hash is not a valid hex string")
    ELSE ProofCheck(m, ctx, cl, nonce,
                    IF DecodeOk(nonceChecksum) THEN nonceChecksum ELSE <<>>, data, hash)

\* Mutant: a checksum that decodes to no bytes is refused.
DecodeAndVerifyNoEmptyChecksum(m, ctx, cl, nonce, nonceChecksum, data, hash) ==
    IF ~DecodeOk(hash)
        THEN BadRequest(ctx, cl, "received hash is not a valid hex string")
    ELSE IF ~DecodeOk(nonceChecksum) \/ nonceChecksum = <<>>
        THEN BadRequest(ctx, cl, "received checksum is not a valid hex string")
    ELSE ProofCheck(m, ctx, cl, nonce, nonceChecksum, data, hash)

\* From hex.DecodeString(hash) to the end of the handler.
DecodeAndVerify(m, ctx, cl, nonce, nonceChecksum, data, hash) ==
    IF ~DecodeOk(hash)
        THEN BadRequest(ctx, cl, "received hash is not a valid hex string")
    ELSE IF ~DecodeOk(nonceChecksum)
        THEN BadRequest(ctx, cl, "received checksum is not a valid hex string")
    ELSE ProofCheck(m, ctx, cl, nonce, nonceChecksum, data, hash)

\* Mutant: the checksum is required whether it is checked or not.
NoChecksumAlways(m, nonceChecksum) == nonceChecksum = <<>>

\* pow.Check && nonceChecksum == ""
NoChecksum(m, nonceChecksum) == m.Check /\ nonceChecksum = <<>>

\* Mutant: the data is still taken from ExtractData.
VerifyWithExtractAllAndData(m, r, ctx) ==
    LET c1 == Invoke(ctx, r.all)
        cl == <<"ExtractAll", "ExtractData">>
    IN  IF r.all.err THEN ExtractionFailed(c1, cl)
        ELSE DecodeAndVerify(m, c1, cl, r.all.v.nonce, r.all.v.nonceChecksum,
                             r.all.v.data, r.all.v.hash)

\* Mutant: the three extractors are invoked before any field is looked at.
VerifyWithExtractorsAllFirst(m, r, ctx) ==
    LET c1 == Invoke(ctx, r.nonce)
        cl1 == <<"ExtractNonce">>
        nonce == r.nonce.v.nonce
        nonceChecksum == r.nonce.v.nonceChecksum
        c2 == Invoke(c1, r.data)
        cl2 == Append(cl1, "ExtractData")
        c3 == Invoke(c2, r.hash)
        cl3 == Append(cl2, "ExtractHash")
    IN  IF r.nonce.err THEN ExtractionFailed(c1, cl1)
        ELSE IF r.data.err THEN ExtractionFailed(c2, cl2)
        ELSE IF r.hash.err THEN ExtractionFailed(c3, cl3)
        ELSE IF nonce = <<>> THEN BadRequest(c3, cl3, "no nonce in request")
        ELSE IF NoChecksum(m, nonceChecksum)
            THEN BadRequest(c3, cl3, "no nonce checksum in request")
        ELSE IF r.hash.v.hash = <<>> THEN BadRequest(c3, cl3, "no hash in request")
        ELSE DecodeAndVerify(m, c3, cl3, nonce, nonceChecksum, r.data.v.data, r.hash.v.hash)

\* The branch taken when pow.ExtractAll != nil.
VerifyWithExtractAll(m, r, ctx) ==
    LET c1 == Invoke(ctx, r.all)
        cl == <<"ExtractAll">>
    IN  IF r.all.err THEN ExtractionFailed(c1, cl)
        ELSE DecodeAndVerify(m, c1, cl, r.all.v.nonce, r.all.v.nonceChecksum,
                             r.all.v.data, r.all.v.hash)

\* The branch taken when pow.ExtractAll == nil.
VerifyWithExtractors(m, r, ctx) ==
    LET c1 == Invoke(ctx, r.nonce)
        cl1 == <<"ExtractNonce">>
        nonce == r.nonce.v.nonce
        nonceChecksum == r.nonce.v.nonceChecksum
        c2 == Invoke(c1, r.data)
        cl2 == Append(cl1, "ExtractData")
        c3 == Invoke(c2, r.hash)
        cl3 == Append(cl2, "ExtractHash")
    IN  IF r.nonce.err THEN ExtractionFailed(c1, cl1)
        ELSE IF nonce = <<>> THEN BadRequest(c1, cl1, "no nonce in request")
        ELSE IF NoChecksum(m, nonceChecksum)
            THEN BadRequest(c1, cl1, "no nonce checksum in request")
        ELSE IF r.data.err THEN ExtractionFailed(c2, cl2)
        ELSE IF r.hash.err THEN ExtractionFailed(c3, cl3)
        ELSE IF r.hash.v.hash = <<>> THEN BadRequest(c3, cl3, "no hash in request")
        ELSE DecodeAndVerify(m, c3, cl3, nonce, nonceChecksum,
                             r.data.v.data, r.hash.v.hash)

Verify(m, r, ctx) ==
    IF m.ExtractAll THEN VerifyWithExtractAll(m, r, ctx)
    ELSE VerifyWithExtractors(m, r, ctx)

\* Mutant: a request that was answered before is refused, the middleware
\* keeping what it has served.
VerifyNonceMiddlewareOnce ==
    /\ pc = "received"
    /\ LET seen == served # <<>> /\ served[1].req = req
           out == IF seen THEN [c |-> Abort(String(c, 409, "nonce already used")),
                                calls |-> <<>>, path |-> "replayed",
                                proofChecks |-> <<>>, hookCalls |-> <<>>]
                  ELSE Verify(pow, req, c)
       IN  /\ c' = out.c
           /\ calls' = out.calls
           /\ path' = out.path
           /\ proofChecks' = out.proofChecks
           /\ hookCalls' = out.hookCalls
    /\ pc' = "verified"
    /\ UNCHANGED <<given, pow, newErr, req, nextRan, issued, served>>

VerifyNonceMiddleware ==
    /\ pc = "received"
    /\ LET out == Verify(pow, req, c)
       IN  /\ c' = out.c
           /\ calls' = out.calls
           /\ path' = out.path
           /\ proofChecks' = out.proofChecks
           /\ hookCalls' = out.hookCalls
    /\ pc' = "verified"
    /\ UNCHANGED <<given, pow, newErr, req, nextRan, issued, served>>

\* gin runs the next handler of the chain unless the request was aborted.
NextHandler ==
    /\ pc = "verified"
    /\ ~IsAborted(c)
    /\ nextRan' = TRUE
    /\ c' = String(c, 200, "yay hash is good!")
    /\ pc' = "done"
    /\ UNCHANGED <<given, pow, newErr, req, calls, proofChecks, hookCalls, path, issued, served>>

\* The response is sent and the context released: after the last handler of
\* the chain, or at once when the request was aborted.
Finish ==
    /\ pc \in {"done", "issuing"} \/ (pc = "verified" /\ IsAborted(c))
    /\ req' = Nil
    /\ c' = NewContext
    /\ calls' = <<>>
    /\ proofChecks' = <<>>
    /\ hookCalls' = <<>>
    /\ path' = ""
    /\ nextRan' = FALSE
    /\ issued' = <<>>
    /\ pc' = "idle"
    /\ UNCHANGED <<given, pow, newErr, served>>

\* ---------------------------------------------------------------- issuance

\* "m" and "n"
NonceChars == {109, 110}

\* What the nonce generator returns: a nonce of the length asked for, or an
\* error.
GeneratedNonces(n) ==
    {[nonce |-> [i \in 1..n |-> ch], err |-> FALSE] : ch \in NonceChars}
        \cup {[nonce |-> <<>>, err |-> TRUE]}

\* gopow.Pow.GenerateNonce: (nonce, checksum, err), the checksum that of the
\* nonce when checksums are checked and empty otherwise.
GenerateNonce(p, g) ==
    IF g.err THEN [nonce |-> <<>>, checksum |-> <<>>, err |-> TRUE]
    ELSE [nonce |-> g.nonce,
          checksum |-> IF p.Check THEN ComputeChecksum(p.Secret, g.nonce) ELSE <<>>,
          err |-> FALSE]

\* The error GenerateNonce returns.
GeneratorError == [Reason |-> "nonce generation failed"]

\* Mutant: the generated checksum is handed on as raw bytes.
getNonceRaw(m, ctx, g) ==
    LET n == Get(ctx, m.NonceContextKey)
        nc == Get(ctx, m.NonceChecksumContextKey)
        r == GenerateNonce(m.Pow, g)
    IN  IF n.exists
            THEN [nonce |-> n.v, nonceChecksum |-> IF m.Check THEN nc.v ELSE <<>>,
                  err |-> FALSE, generated |-> <<>>]
        ELSE [nonce |-> r.nonce, nonceChecksum |-> r.checksum,
              err |-> r.err, generated |-> <<r>>]

\* Mutant: the stashed nonce is not looked for.
getNonceFresh(m, ctx, g) ==
    LET r == GenerateNonce(m.Pow, g)
    IN  [nonce |-> r.nonce, nonceChecksum |-> EncodeToString(r.checksum),
         err |-> r.err, generated |-> <<r>>]

\* getNonce: the stashed nonce and checksum when GenerateNonceMiddleware
\* stashed them, a generated pair otherwise.  generated lists the results
\* of the calls of GenerateNonce.
getNonce(m, ctx, g) ==
    LET n == Get(ctx, m.NonceContextKey)
        nc == Get(ctx, m.NonceChecksumContextKey)
        r == GenerateNonce(m.Pow, g)
    IN  IF n.exists
            THEN [nonce |-> n.v, nonceChecksum |-> IF m.Check THEN nc.v ELSE <<>>,
                  err |-> FALSE, generated |-> <<>>]
        ELSE [nonce |-> r.nonce, nonceChecksum |-> EncodeToString(r.checksum),
              err |-> r.err, generated |-> <<r>>]

\* The gin.H of NonceHandler.
Body(m, nonce, nonceChecksum) ==
    LET h == (m.HashDifficultyDataKey :> m.Difficulty) @@ (m.NonceDataKey :> nonce)
    IN  IF m.Check THEN (m.NonceChecksumDataKey :> nonceChecksum) @@ h ELSE h

NonceHandler(m, ctx, accepted, g) ==
    LET r == getNonce(m, ctx, g)
    IN  [c |-> IF r.err THEN Error(ctx, GeneratorError)
               ELSE Negotiate(ctx, 200, accepted, Body(m, r.nonce, r.nonceChecksum)),
         generated |-> r.generated]

\* Mutant: the error of getNonce is not looked at.
NonceHeaderMiddlewareUnchecked(m, ctx, g) ==
    LET r == getNonce(m, ctx, g)
        c1 == Header(ctx, m.NonceHeader, r.nonce)
        c2 == Header(c1, m.HashDifficultyHeader, Itoa(m.Difficulty))
    IN  [c |-> IF m.Check THEN Header(c2, m.NonceChecksumHeader, r.nonceChecksum) ELSE c2,
         generated |-> r.generated]

NonceHeaderMiddleware(m, ctx, g) ==
    LET r == getNonce(m, ctx, g)
        c1 == Header(ctx, m.NonceHeader, r.nonce)
        c2 == Header(c1, m.HashDifficultyHeader, Itoa(m.Difficulty))
    IN  [c |-> IF r.err THEN Error(ctx, GeneratorError)
               ELSE IF m.Check THEN Header(c2, m.NonceChecksumHeader, r.nonceChecksum)
               ELSE c2,
         generated |-> r.generated]

\* Mutant: the checksum is stashed whether or not Check is set.
GenerateNonceMiddlewareUnchecked(m, ctx, g) ==
    LET r == GenerateNonce(m.Pow, g)
        c1 == Set(ctx, m.NonceContextKey, r.nonce)
        c2 == Set(c1, m.HashDifficultyContextKey, m.Difficulty)
    IN  [c |-> IF r.err THEN Error(ctx, GeneratorError)
               ELSE Set(c2, m.NonceChecksumContextKey, EncodeToString(r.checksum)),
         generated |-> <<r>>]

GenerateNonceMiddleware(m, ctx, g) ==
    LET r == GenerateNonce(m.Pow, g)
        c1 == Set(ctx, m.NonceContextKey, r.nonce)
        c2 == Set(c1, m.HashDifficultyContextKey, m.Difficulty)
    IN  [c |-> IF r.err THEN Error(ctx, GeneratorError)
               ELSE IF m.Check
                   THEN Set(c2, m.NonceChecksumContextKey, EncodeToString(r.checksum))
               ELSE c2,
         generated |-> <<r>>]

\* What a request accepts: a format Negotiate offers, or none of them.
Accepts == {"application/json", "text/html"}

\* A request arrives at a route of issuance handlers.
ReceiveIssue ==
    /\ pc = "idle"
    /\ \E a \in Accepts : req' = [Accept |-> a]
    /\ c' = NewContext
    /\ calls' = <<>>
    /\ proofChecks' = <<>>
    /\ hookCalls' = <<>>
    /\ path' = ""
    /\ nextRan' = FALSE
    /\ issued' = <<>>
    /\ pc' = "issuing"
    /\ UNCHANGED <<given, pow, newErr, served>>

\* gin runs the next handler of the route unless the request was aborted.
Issuing == pc = "issuing" /\ ~IsAborted(c) /\ Len(issued) < MaxChain

\* A handler of the route has run: issued records it with the context it
\* was called with, the context it left and its calls of GenerateNonce.
Ran(by, out) ==
    /\ issued' = Append(issued, [by |-> by, before |-> c, after |-> out.c,
                                 generated |-> out.generated])
    /\ c' = out.c
    /\ UNCHANGED <<given, pow, newErr, pc, req, calls, proofChecks, hookCalls, path, nextRan,
                   served>>

RunGenerateNonceMiddleware ==
    /\ Issuing
    /\ \E g \in GeneratedNonces(pow.Pow.NonceLength) :
          Ran("GenerateNonceMiddleware", GenerateNonceMiddleware(pow, c, g))

RunNonceHeaderMiddleware ==
    /\ Issuing
    /\ \E g \in GeneratedNonces(pow.Pow.NonceLength) :
          Ran("NonceHeaderMiddleware", NonceHeaderMiddleware(pow, c, g))

RunNonceHandler ==
    /\ Issuing
    /\ \E g \in GeneratedNonces(pow.Pow.NonceLength) :
          Ran("NonceHandler", NonceHandler(pow, c, req.Accept, g))

\* The default ExtractNonce, and one of the integrator that reads the
\* headers the middleware is configured with.
ExtractNonce(m, headers) ==
    IF m.ExtractNonce = "default"
        THEN [nonce |-> GetHeader(headers, "X-Nonce"),
              nonceChecksum |-> GetHeader(headers, "X-Nonce-Checksum")]
    ELSE [nonce |-> GetHeader(headers, m.NonceHeader),
          nonceChecksum |-> GetHeader(headers, m.NonceChecksumHeader)]

\* The default ExtractHash; the integrator's reads the same header.
ExtractHash(m, headers) == [hash |-> GetHeader(headers, "X-Hash")]

\* The client takes the nonce and the checksum from the headers of the
\* response, computes the hash of its data and the nonce, and sends the
\* three to the route of VerifyNonceMiddleware: the nonce and the checksum
\* in the headers it received them in, the hash in X-Hash.
Resubmit ==
    /\ pc = "issuing"
    /\ pow.NonceHeader \in DOMAIN c.header
    /\ \E d \in Datas :
          LET nonce == c.header[pow.NonceHeader]
              sent == ("X-Hash" :> EncodeToString(Hash(d \o nonce)))
                        @@ [k \in DOMAIN c.header \cap {pow.NonceHeader, pow.NonceChecksumHeader}
                              |-> c.header[k]]
          IN  req' = [nonce |-> Returns("ok", ExtractNonce(pow, sent), <<>>),
                      data |-> Returns("ok", [data |-> d], <<>>),
                      hash |-> Returns("ok", ExtractHash(pow, sent), <<>>),
                      sent |-> sent]
    /\ c' = NewContext
    /\ calls' = <<>>
    /\ proofChecks' = <<>>
    /\ hookCalls' = <<>>
    /\ path' = ""
    /\ nextRan' = FALSE
    /\ issued' = <<>>
    /\ pc' = "received"
    /\ UNCHANGED <<given, pow, newErr, served>>

\* ------------------------------------------------- one request after another

\* The configurations of a server with both kinds of routes: the secret is
\* given, the names are the defaults.
ReplayConfigs ==
    {m @@ Named({}) :
        m \in {s \in Settings(BOOLEAN, {"custom"}, {0}, {Nil}, {2}) :
                  s.ExtractData /\ s.Secret # <<>>}}

NewReplay ==
    /\ pc \in {"new", "failed"}
    /\ \E m \in ReplayConfigs, gen \in GeneratedIDs(SecretLength) : Construct(m, gen)
    /\ UNCHANGED <<req, c, calls, proofChecks, hookCalls, path, nextRan, issued, served>>

\* The nonce a client makes up: shorter than any the server generates.
ForgedNonces == {<<110>>}

\* The hashes and the checksums such a client sends.
ForgedHashes(nonce, data) == {<<>>, <<103>>, EncodeToString(Hash(data \o nonce))}

ForgedChecksums(secret, nonce) == {<<>>, EncodeToString(ComputeChecksum(secret, nonce))}

\* A request arrives at the route of VerifyNonceMiddleware with a nonce the
\* server never issued; the extractors all return, or all fail.
ReceiveForged ==
    /\ pc = "idle"
    /\ \E n \in ForgedNonces, d \in Datas, b \in {"ok", "err"} :
       \E cs \in ForgedChecksums(pow.Secret, n), h \in ForgedHashes(n, d) :
          IF pow.ExtractAll
          THEN req' = [all |-> Returns(b,
                          [nonce |-> n, nonceChecksum |-> cs, data |-> d, hash |-> h],
                          [nonce |-> <<>>, nonceChecksum |-> <<>>, data |-> <<>>, hash |-> <<>>])]
          ELSE req' = [nonce |-> Returns(b, [nonce |-> n, nonceChecksum |-> cs],
                                            [nonce |-> <<>>, nonceChecksum |-> <<>>]),
                       data |-> Returns(b, [data |-> d], [data |-> <<>>]),
                       hash |-> Returns(b, [hash |-> h], [hash |-> <<>>])]
    /\ c' = NewContext
    /\ calls' = <<>>
    /\ proofChecks' = <<>>
    /\ hookCalls' = <<>>
    /\ path' = ""
    /\ nextRan' = FALSE
    /\ pc' = "received"
    /\ UNCHANGED <<given, pow, newErr, issued, served>>

\* The honest client of a server whose verification route uses the three
\* extractors.
ResubmitSplit == pc = "issuing" /\ ~pow.ExtractAll /\ Resubmit

\* What is kept of the first verification answered.
Answer ==
    [req |-> req, c |-> c, calls |-> calls, proofChecks |-> proofChecks,
     hookCalls |-> hookCalls, path |-> path, nextRan |-> nextRan, since |-> {}]

\* Finish, served keeping the first verification answered and the kinds
\* of the requests answered after it.
FinishServed ==
    /\ pc \in {"done", "issuing"} \/ (pc = "verified" /\ IsAborted(c))
    /\ served' =
          IF served # <<>>
              THEN <<[served[1] EXCEPT
                        !.since = @ \cup {IF pc = "issuing" THEN "issuance"
                                          ELSE "verification"}]>>
          ELSE IF pc = "issuing" THEN <<>>
          ELSE <<Answer>>
    /\ req' = Nil
    /\ c' = NewContext
    /\ calls' = <<>>
    /\ proofChecks' = <<>>
    /\ hookCalls' = <<>>
    /\ path' = ""
    /\ nextRan' = FALSE
    /\ issued' = <<>>
    /\ pc' = "idle"
    /\ UNCHANGED <<given, pow, newErr>>

\* ------------------------------------------------------- the specification

Init ==
    /\ given = Nil
    /\ pow = Nil
    /\ newErr = ""
    /\ pc = "new"
    /\ req = Nil
    /\ c = NewContext
    /\ calls = <<>>
    /\ proofChecks = <<>>
    /\ hookCalls = <<>>
    /\ path = ""
    /\ nextRan = FALSE
    /\ issued = <<>>
    /\ served = <<>>

Next == New \/ Receive \/ VerifyNonceMiddleware \/ NextHandler \/ Finish

Spec == Init /\ [][Next]_vars

\* Issuance, and the verification of what an honest client sends back.
NextIssue ==
    \/ NewIssuer
    \/ ReceiveIssue
    \/ RunGenerateNonceMiddleware
    \/ RunNonceHeaderMiddleware
    \/ RunNonceHandler
    \/ Resubmit
    \/ VerifyNonceMiddleware
    \/ NextHandler
    \/ Finish

SpecIssue == Init /\ [][NextIssue]_vars

\* Requests answered one after another: issuances, the proofs of honest
\* clients and proofs for nonces that were never issued.
NextReplay ==
    \/ NewReplay
    \/ ReceiveForged
    \/ ReceiveIssue
    \/ RunGenerateNonceMiddleware
    \/ RunNonceHeaderMiddleware
    \/ RunNonceHandler
    \/ ResubmitSplit
    \/ VerifyNonceMiddleware
    \/ NextHandler
    \/ FinishServed

SpecReplay == Init /\ [][NextReplay]_vars

\* New as a function of the configuration it is called with.
InitNew ==
    /\ given \in AllConfigs
    /\ pow = Nil
    /\ newErr = ""
    /\ pc = "new"
    /\ req = Nil
    /\ c = NewContext
    /\ calls = <<>>
    /\ proofChecks = <<>>
    /\ hookCalls = <<>>
    /\ path = ""
    /\ nextRan = FALSE
    /\ issued = <<>>
    /\ served = <<>>

NextNew == NewGiven

SpecNew == InitNew /\ [][NextNew]_vars

\* ------------------------------------------------- reading a finished run

\* VerifyNonceMiddleware has returned and no later handler has touched the
\* context.
Returned == pc = "verified"

Result(name) ==
    CASE name = "ExtractAll" -> req.all
      [] name = "ExtractNonce" -> req.nonce
      [] name = "ExtractData" -> req.data
      [] name = "ExtractHash" -> req.hash

\* An extractor that was invoked returned an error; it had aborted first.
InvokedError == \E i \in 1..Len(calls) : Result(calls[i]).err

InvokedAbort == \E i \in 1..Len(calls) : Result(calls[i]).aborts

\* No extractor of the configured variant returns an error on the request.
NoExtractorError ==
    IF pow.ExtractAll THEN ~req.all.err
    ELSE ~req.nonce.err /\ ~req.data.err /\ ~req.hash.err

\* The values the configured extractors return for the request.
Fields ==
    IF pow.ExtractAll THEN req.all.v
    ELSE [nonce |-> req.nonce.v.nonce,
          nonceChecksum |-> req.nonce.v.nonceChecksum,
          data |-> req.data.v.data,
          hash |-> req.hash.v.hash]

StructurallyValid ==
    /\ Fields.nonce # <<>>
    /\ pow.Check => Fields.nonceChecksum # <<>>
    /\ Fields.hash # <<>>

\* Some field the structural validation looks at was extracted and is empty.
ExtractedEmpty ==
    IF pow.ExtractAll
    THEN ~req.all.err /\ ~StructurallyValid
    ELSE \/ ~req.nonce.err /\ req.nonce.v.nonce = <<>>
         \/ ~req.nonce.err /\ pow.Check /\ req.nonce.v.nonceChecksum = <<>>
         \/ /\ NoExtractorError
            /\ req.hash.v.hash = <<>>

\* The response of a malformed request: one status, 400, and the abort.
Malformed400 ==
    /\ Len(c.writes) = 1
    /\ c.writes[1].code = 400
    /\ IsAborted(c)

\* The five outcomes of a run.
Outcome ==
    CASE path = "extraction failed" -> "Extraction-Failed"
      [] path = "passed" -> "Accepted"
      [] path = "rejected" ->
            IF hookCalls[1].Reason = "checksum invalid" THEN "Checksum-Invalid"
            ELSE "Difficulty-Not-Met"
      [] OTHER -> "Malformed-Request"

\* ------------------------------------------------------------------ claims

\* C1: a request whose extracted nonce is empty, or whose extracted checksum
\* is empty while checksums are checked, or whose extracted hash is empty,
\* is answered 400 and aborted, and OnFailedVerification is not invoked,
\* with ExtractAll as with the three extractors.
C1_EmptyFieldIsMalformed ==
    (Returned /\ ExtractedEmpty) => (Malformed400 /\ hookCalls = <<>>)

\* C1 holds of the three separate extractors.
C1_EmptyFieldIsMalformedSplit ==
    (Returned /\ ~pow.ExtractAll /\ ExtractedEmpty) => (Malformed400 /\ hookCalls = <<>>)

\* C2 as stated: an extractor error is answered 500, whatever the extractor
\* did to the request.
C2_ExtractorErrorIs500 ==
    (Returned /\ InvokedError) =>
        /\ \E i \in 1..Len(c.writes) : c.writes[i].code = 500
        /\ IsAborted(c)
        /\ hookCalls = <<>>
        /\ proofChecks = <<>>

\* C2: when an invoked extractor returns an error the request ends aborted,
\* OnFailedVerification is not invoked and no proof check is run; status
\* 500 is written and the error recorded, once, unless the extractor had
\* aborted the request itself, and then the middleware writes nothing.
C2_ExtractorErrorAborts ==
    (Returned /\ InvokedError) =>
        /\ IsAborted(c)
        /\ hookCalls = <<>>
        /\ proofChecks = <<>>
        /\ IF InvokedAbort
           THEN c.writes = <<[code |-> 401, body |-> ""]>> /\ c.errors = <<>>
           ELSE c.writes = <<[code |-> 500, body |-> ""]>> /\ c.errors = <<ExtractorError>>

C2_Witness ==
    /\ Returned
    /\ InvokedError
    /\ ~InvokedAbort
    /\ Len(calls) = 3
    /\ c.writes = <<[code |-> 500, body |-> ""]>>

\* C3: an extracted, structurally valid request whose hash or whose checksum
\* is no hexadecimal string is answered 400 and aborted; the proof check is
\* not run and OnFailedVerification is not invoked.
C3_NotHexIsMalformed ==
    (/\ Returned
     /\ NoExtractorError
     /\ StructurallyValid
     /\ ~DecodeOk(Fields.hash) \/ ~DecodeOk(Fields.nonceChecksum))
    => (Malformed400 /\ proofChecks = <<>> /\ hookCalls = <<>>)

C3_Witness ==
    /\ Returned
    /\ NoExtractorError
    /\ StructurallyValid
    /\ DecodeOk(Fields.hash)
    /\ ~DecodeOk(Fields.nonceChecksum)
    /\ ~pow.Check
    /\ Malformed400

\* The verdict of the proof check on the request's fields.
ProofResult ==
    VerifyHashAtDifficulty(pow.Pow, Fields.nonce, Fields.data,
                           DecodeString(Fields.hash), DecodeString(Fields.nonceChecksum))

\* The proof check was run on the request and rejected it.
ProofRejected == Returned /\ proofChecks # <<>> /\ ~ProofResult.ok

\* C4: a rejected proof makes one VerificationError of the extracted hash,
\* nonce and checksum, the configured difficulty and the reason of the
\* rejection; it is appended once to the request's errors and handed once
\* to OnFailedVerification, and it has no field for the data.
C4_OneVerificationError ==
    ProofRejected =>
        LET e == [Hash |-> Fields.hash,
                  Nonce |-> Fields.nonce,
                  NonceChecksum |-> Fields.nonceChecksum,
                  Difficulty |-> given.Difficulty,
                  Reason |-> ProofResult.reason]
        IN  /\ c.errors = <<e>>
            /\ hookCalls = <<e>>
            /\ Len(proofChecks) = 1
            /\ DOMAIN hookCalls[1] = {"Hash", "Nonce", "NonceChecksum", "Difficulty", "Reason"}

C4_Witness ==
    /\ ProofRejected
    /\ Len(hookCalls) = 1
    /\ hookCalls[1].Nonce # <<>>
    /\ hookCalls[1].NonceChecksum # <<>>
    /\ hookCalls[1].Nonce # hookCalls[1].NonceChecksum
    /\ hookCalls[1].Difficulty > 0

\* C5: OnFailedVerification is invoked only in a run that ends in
\* Checksum-Invalid or Difficulty-Not-Met; a run that ends in Accepted,
\* Malformed-Request or Extraction-Failed does not invoke it.
C5_HookOnlyOnRejectedProof ==
    pc \in {"verified", "done"} =>
        /\ hookCalls # <<>> => Outcome \in {"Checksum-Invalid", "Difficulty-Not-Met"}
        /\ Outcome \in {"Accepted", "Malformed-Request", "Extraction-Failed"}
              => Len(hookCalls) = 0

C5_Witness ==
    /\ Returned
    /\ Outcome = "Malformed-Request"
    /\ Len(c.writes) = 1
    /\ hookCalls = <<>>

\* C6: with no OnFailedVerification given to New, a rejected proof aborts
\* the request and answers the configured FailureStatusCode, 428 when none
\* was configured, with the reason as the body; a checksum that does not
\* match the nonce under the secret is Checksum-Invalid, answered 428.
C6_DefaultHandlerResponse ==
    (ProofRejected /\ given.OnFailedVerification = Nil) =>
        /\ IsAborted(c)
        /\ c.writes = <<[code |-> IF given.FailureStatusCode = 0 THEN 428
                                  ELSE given.FailureStatusCode,
                         body |-> ProofResult.reason]>>
        /\ (/\ pow.Check
            /\ DecodeString(Fields.nonceChecksum) # ComputeChecksum(pow.Secret, Fields.nonce))
           => Outcome = "Checksum-Invalid"

C6_Witness ==
    /\ ProofRejected
    /\ given.OnFailedVerification = Nil
    /\ given.FailureStatusCode = 0
    /\ pow.Check
    /\ DecodeString(Fields.nonceChecksum) # ComputeChecksum(pow.Secret, Fields.nonce)
    /\ Fields.nonceChecksum # <<>>
    /\ c.writes[1].code = 428

\* Every stage passes on the request.
AllPass ==
    /\ NoExtractorError
    /\ StructurallyValid
    /\ DecodeOk(Fields.hash)
    /\ DecodeOk(Fields.nonceChecksum)
    /\ ProofResult.ok

\* C7: when every stage passes, VerifyNonceMiddleware does nothing: no
\* abort, no status or body, no error recorded, no invocation of
\* OnFailedVerification, and the next handler of the pipeline runs.
C7_SuccessTakesNoAction ==
    (Returned /\ AllPass) =>
        /\ c = NewContext
        /\ hookCalls = <<>>
        /\ ENABLED NextHandler

C7_Witness == Returned /\ AllPass /\ pow.Check /\ pow.Difficulty > 0 /\ path = "passed"

\* C8 as stated: after any failure, whatever handler is configured, the
\* request is aborted, no later handler runs and one status is written.
C8_FailureAbortsOnceAnyHandler ==
    (pc \in {"verified", "done"} /\ Outcome # "Accepted") =>
        /\ ~nextRan
        /\ Returned => (IsAborted(c) /\ Len(c.writes) = 1)

\* C8: after Extraction-Failed or Malformed-Request, and after a rejected
\* proof when the configured OnFailedVerification aborts and answers, as
\* the default one does, the request is aborted, no later handler runs and
\* exactly one status is written.  The middleware leaves both to the handler.
C8_FailureAbortsOnce ==
    (/\ pc \in {"verified", "done"}
     /\ Outcome # "Accepted"
     /\ path = "rejected" => pow.OnFailedVerification \in {"default", "respond"})
    => (/\ ~nextRan
        /\ pc # "done"
        /\ IsAborted(c)
        /\ Len(c.writes) = 1)

C8_Witness ==
    /\ Returned
    /\ path = "rejected"
    /\ pow.OnFailedVerification = "default"
    /\ IsAborted(c)
    /\ Len(c.writes) = 1

\* The checksum stage passes on the request.
ChecksumPasses ==
    pow.Check => DecodeString(Fields.nonceChecksum) = ComputeChecksum(pow.Secret, Fields.nonce)

HashIsDigest == DecodeString(Fields.hash) = Hash(Fields.data \o Fields.nonce)

ZeroBits == LeadingZeroBits(DecodeString(Fields.hash))

NewReturned == pc # "new"

Succeeded == pc \notin {"new", "failed"}

Steps == 1..Len(issued)

\* The step that has just run.  The records of issued are never changed,
\* so what holds of the last step in every state holds of every step.
LastStep == {Len(issued)} \cap Steps

By(i) == issued[i].by

IssueSteps == {i \in Steps : By(i) \in {"NonceHeaderMiddleware", "NonceHandler"}}

\* The handler of step i pushed no error: it emitted what it issues.
Emitted(i) == issued[i].after.errors = issued[i].before.errors

\* The map step i wrote to: the key/value store, the header of the
\* response, or the body it answered with.
Written(i) ==
    CASE By(i) = "GenerateNonceMiddleware" -> issued[i].after.Keys
      [] By(i) = "NonceHeaderMiddleware" -> issued[i].after.header
      [] By(i) = "NonceHandler" ->
            issued[i].after.writes[Len(issued[i].after.writes)].body

NonceName(i) ==
    CASE By(i) = "GenerateNonceMiddleware" -> pow.NonceContextKey
      [] By(i) = "NonceHeaderMiddleware" -> pow.NonceHeader
      [] By(i) = "NonceHandler" -> pow.NonceDataKey

ChecksumName(i) ==
    CASE By(i) = "GenerateNonceMiddleware" -> pow.NonceChecksumContextKey
      [] By(i) = "NonceHeaderMiddleware" -> pow.NonceChecksumHeader
      [] By(i) = "NonceHandler" -> pow.NonceChecksumDataKey

DifficultyName(i) ==
    CASE By(i) = "GenerateNonceMiddleware" -> pow.HashDifficultyContextKey
      [] By(i) = "NonceHeaderMiddleware" -> pow.HashDifficultyHeader
      [] By(i) = "NonceHandler" -> pow.HashDifficultyDataKey

HasNonce(i) == NonceName(i) \in DOMAIN Written(i)

HasChecksum(i) == ChecksumName(i) \in DOMAIN Written(i)

HasDifficulty(i) == DifficultyName(i) \in DOMAIN Written(i)

EmittedNonce(i) == Written(i)[NonceName(i)]

EmittedChecksum(i) == Written(i)[ChecksumName(i)]

\* A decimal numeral read as a number.
RECURSIVE Atoi(_)
Atoi(s) == IF s = <<>> THEN 0 ELSE 10 * Atoi(SubSeq(s, 1, Len(s) - 1)) + (s[Len(s)] - 48)

EmittedDifficulty(i) ==
    IF By(i) = "NonceHeaderMiddleware" THEN Atoi(Written(i)[DifficultyName(i)])
    ELSE Written(i)[DifficultyName(i)]

\* The steps before step i in which GenerateNonceMiddleware stashed a nonce.
StashedBefore(i) ==
    {j \in 1..(i - 1) : By(j) = "GenerateNonceMiddleware" /\ Emitted(j)}

LastStash(i) == CHOOSE j \in StashedBefore(i) : \A k \in StashedBefore(i) : k <= j

LowerHex(s) == \A k \in 1..Len(s) : s[k] \in 48..57 \cup 97..102

\* The checksum validation of VerifyNonceMiddleware passes for the nonce
\* and the checksum field: a request that carries them with a correctly
\* computed hash is let through, or rejected for its difficulty alone.
ChecksumAccepted(m, nonce, nonceChecksum) ==
    \A d \in Datas :
        LET out == DecodeAndVerify(m, NewContext, <<>>, nonce, nonceChecksum, d,
                                   EncodeToString(Hash(d \o nonce)))
        IN  \/ out.path = "passed"
            \/ out.path = "rejected" /\ out.hookCalls[1].Reason = "difficulty not met"

\* The middleware under another secret.
WithSecret(m, secret) == [m EXCEPT !.Secret = secret, !.Pow.Secret = secret]

\* "s", "t" and the generated secret
Secrets == {<<115>>, <<116>>, [i \in 1..SecretLength |-> 120]}

\* C11: every checksum a handler emits with a nonce (header, body field or
\* context key) is lower-case hexadecimal and decodes to Hash(nonce ||
\* Secret); the checksum validation of VerifyNonceMiddleware passes for the
\* pair under the same secret, and it does not pass for another nonce,
\* under another secret, or for a checksum field of other bytes.
C11_IssuedChecksumVerifies ==
    pc = "issuing" =>
        \A i \in LastStep :
            (Emitted(i) /\ HasChecksum(i)) =>
                LET nonce == EmittedNonce(i)
                    nonceChecksum == EmittedChecksum(i)
                IN  /\ LowerHex(nonceChecksum)
                    /\ DecodeOk(nonceChecksum)
                    /\ DecodeString(nonceChecksum) = Hash(nonce \o pow.Secret)
                    /\ ChecksumAccepted(pow, nonce, nonceChecksum)
                    /\ \A g \in GeneratedNonces(pow.NonceLength) :
                          (~g.err /\ g.nonce # nonce) =>
                              ~ChecksumAccepted(pow, g.nonce, nonceChecksum)
                    /\ \A secret \in Secrets \ {pow.Secret} :
                          ~ChecksumAccepted(WithSecret(pow, secret), nonce, nonceChecksum)
                    /\ \A other \in ChecksumFields(pow.Secret, <<>>) :
                          (DecodeOk(other) => DecodeString(other) # DecodeString(nonceChecksum))
                              => ~ChecksumAccepted(pow, nonce, other)

\* A handler answers with a stashed nonce and its checksum, under a secret
\* New generated.
C11_Witness ==
    /\ pc = "issuing"
    /\ given.Secret = <<>>
    /\ \E i \in Steps :
          /\ By(i) = "NonceHandler"
          /\ StashedBefore(i) # {}
          /\ Emitted(i)
          /\ HasChecksum(i)

\* The request in flight is what a client sent back after an issuance.
SentBack == Returned /\ "sent" \in DOMAIN req

\* C12: at difficulty 0, for every configuration New accepts, a nonce and
\* checksum issued in the response headers and sent back in the same
\* headers with the hash of the data and the nonce is Accepted.
C12_RoundTripAccepted ==
    (SentBack /\ pow.Difficulty = 0) => Outcome = "Accepted"

\* The round trip is Accepted when the header names are the defaults or
\* ExtractNonce is the integrator's.
C12_RoundTripDefaultNames ==
    (SentBack /\ pow.Difficulty = 0
        /\ (given.NonceHeader = "" \/ given.ExtractNonce # Nil))
        => Outcome = "Accepted"

\* C13: an Issue step that follows a step in which GenerateNonceMiddleware
\* stashed a nonce does not call the generator, and what it emits is the
\* nonce of the latest stash, with the checksum of that stash when
\* checksums are checked and with no checksum otherwise; an Issue step
\* with no such step before it calls the generator once and leaves the
\* key/value store as it was.
C13_IssueReusesStash ==
    pc = "issuing" =>
        \A i \in IssueSteps :
            IF StashedBefore(i) # {}
            THEN /\ issued[i].generated = <<>>
                 /\ issued[i].after.Keys = issued[i].before.Keys
                 /\ Emitted(i) =>
                       /\ HasNonce(i)
                       /\ EmittedNonce(i) = EmittedNonce(LastStash(i))
                       /\ IF pow.Check
                          THEN /\ HasChecksum(i)
                               /\ EmittedChecksum(i) = EmittedChecksum(LastStash(i))
                          ELSE ~HasChecksum(i)
            ELSE /\ Len(issued[i].generated) = 1
                 /\ issued[i].after.Keys = issued[i].before.Keys
                 /\ Emitted(i) => EmittedNonce(i) = issued[i].generated[1].nonce

\* NonceHeaderMiddleware runs after GenerateNonceMiddleware and emits the
\* stashed nonce with its checksum.
C13_Witness ==
    /\ pc = "issuing"
    /\ pow.Check
    /\ Len(issued) = 2
    /\ By(1) = "GenerateNonceMiddleware"
    /\ By(2) = "NonceHeaderMiddleware"
    /\ Emitted(1)
    /\ Emitted(2)
    /\ EmittedNonce(2) = EmittedNonce(1)

\* C14: a handler that issues emits the nonce and the difficulty, and it
\* emits a checksum, a non-empty one, exactly when Check is set: in the
\* header of the response, in the body and in the key/value store.
C14_ChecksumIffCheck ==
    pc = "issuing" =>
        \A i \in Steps :
            Emitted(i) =>
                /\ HasNonce(i)
                /\ EmittedNonce(i) # <<>>
                /\ HasDifficulty(i)
                /\ HasChecksum(i) <=> pow.Check
                /\ pow.Check => EmittedChecksum(i) # <<>>

\* The three handlers, with Check set and without.
C14_Witness ==
    /\ pc = "issuing"
    /\ ~pow.Check
    /\ Len(issued) = 2
    /\ By(1) = "NonceHeaderMiddleware"
    /\ By(2) = "NonceHandler"
    /\ Emitted(1)
    /\ Emitted(2)
    /\ ~HasChecksum(2)

\* The checksum and the hash of the request pass: only the difficulty
\* decides.
DifficultyDecides ==
    /\ Returned
    /\ proofChecks # <<>>
    /\ pow.Check => proofChecks[1].nonceChecksum = Hash(proofChecks[1].nonce \o pow.Secret)
    /\ proofChecks[1].hash = Hash(proofChecks[1].data \o proofChecks[1].nonce)

\* C15: the difficulty each handler advertises (header, body field, context
\* entry) is the difficulty New was given; a proof that passes the other
\* checks is let through exactly when its leading zero bits reach that
\* difficulty, and every VerificationError carries it.
C15_OneDifficulty ==
    /\ pc = "issuing" =>
          \A i \in Steps :
              Emitted(i) => (HasDifficulty(i) /\ EmittedDifficulty(i) = given.Difficulty)
    /\ DifficultyDecides =>
          (path = "passed" <=> LeadingZeroBits(proofChecks[1].hash) >= given.Difficulty)
    /\ \A k \in 1..Len(hookCalls) : hookCalls[k].Difficulty = given.Difficulty

\* A round trip is rejected for its difficulty.
C15_Witness ==
    /\ SentBack
    /\ given.Difficulty = MaxDifficulty
    /\ path = "rejected"
    /\ hookCalls[1].Reason = "difficulty not met"

\* C16: New returns the configuration error, and no middleware, exactly
\* when neither ExtractData nor ExtractAll is set; when one of them is set
\* and the generation of a secret does not fail, it returns a middleware
\* and no error.
C16_ConfigurationError ==
    NewReturned =>
        /\ newErr = "pow.ExtractData func not declared"
              <=> (~given.ExtractData /\ ~given.ExtractAll)
        /\ newErr # "" <=> pc = "failed"
        /\ (newErr # "" /\ (given.ExtractData \/ given.ExtractAll)) =>
              (given.Check /\ given.Secret = <<>>)

\* New accepts a configuration with ExtractAll and no ExtractData.
C16_Witness ==
    /\ Succeeded
    /\ newErr = ""
    /\ given.ExtractAll
    /\ ~given.ExtractData

\* The defaults as documented.
Documented ==
    [NonceHeader |-> "X-Nonce",
     NonceChecksumHeader |-> "X-Nonce-Checksum",
     HashDifficultyHeader |-> "X-Hash-Difficulty",
     NonceDataKey |-> "nonce",
     NonceChecksumDataKey |-> "nonce_checksum",
     HashDifficultyDataKey |-> "difficulty",
     NonceContextKey |-> "nonce",
     NonceChecksumContextKey |-> "nonceChecksum",
     HashDifficultyContextKey |-> "hashDifficulty"]

\* C17: in the middleware New returns, a name the caller left empty is the
\* documented default and a name the caller set is as given; the nonce
\* length is 10 when left 0 and the failure status 428 when left 0, and
\* as given otherwise; the difficulty and Check are as given, 0 and off
\* when unset.
C17_Defaults ==
    Succeeded =>
        /\ \A f \in NameFields :
              pow[f] = IF given[f] = "" THEN Documented[f] ELSE given[f]
        /\ pow.NonceLength = IF given.NonceLength = 0 THEN 10 ELSE given.NonceLength
        /\ pow.Pow.NonceLength = pow.NonceLength
        /\ pow.FailureStatusCode =
              IF given.FailureStatusCode = 0 THEN 428 ELSE given.FailureStatusCode
        /\ pow.Difficulty = given.Difficulty
        /\ pow.Check = given.Check
        /\ given.Secret # <<>> => pow.Secret = given.Secret

\* New is given one name, a nonce length and a failure status, and fills
\* in the rest.
C17_Witness ==
    /\ Succeeded
    /\ given.NonceHeader # ""
    /\ given.NonceDataKey = ""
    /\ given.NonceLength # 0
    /\ given.FailureStatusCode # 0
    /\ pow.NonceChecksumHeader = "X-Nonce-Checksum"

\* The secret of the middleware New returned.
SecretAsNewLeftIt ==
    /\ (given.Check /\ given.Secret = <<>>) =>
          (Len(pow.Secret) = 32 /\ pow.Secret # given.Secret)
    /\ given.Secret # <<>> => pow.Secret = given.Secret
    /\ ~given.Check => pow.Secret = given.Secret
    /\ pow.Pow.Secret = pow.Secret

\* C18: the secret of the middleware New returns is a generated one of
\* length 32 when Check is set and none was given, the given one when one
\* was given, and none is generated when Check is not set; no step of a
\* request changes the middleware.
C18_SecretSetOnce ==
    /\ [](Succeeded => SecretAsNewLeftIt)
    /\ [][Succeeded => pow' = pow]_vars

\* A request is verified under a secret New generated.
C18_Witness ==
    /\ Returned
    /\ given.Check
    /\ given.Secret = <<>>
    /\ path = "passed"

\* C19: with ExtractAll set VerifyNonceMiddleware invokes ExtractAll and no
\* other extractor, and checks the four values it returned; without it,
\* it invokes ExtractNonce, ExtractData and ExtractHash in this order, as
\* far as it gets, never ExtractAll, and checks the values they returned.
C19_OneExtractionVariant ==
    Returned =>
        /\ IF pow.ExtractAll THEN calls = <<"ExtractAll">>
           ELSE /\ Len(calls) \in 1..3
                /\ calls = SubSeq(<<"ExtractNonce", "ExtractData", "ExtractHash">>, 1, Len(calls))
                /\ proofChecks # <<>> => Len(calls) = 3
        /\ proofChecks # <<>> =>
              /\ proofChecks[1].nonce = Fields.nonce
              /\ proofChecks[1].data = Fields.data
              /\ proofChecks[1].hash = DecodeString(Fields.hash)
              /\ proofChecks[1].nonceChecksum = DecodeString(Fields.nonceChecksum)

\* ExtractAll and ExtractData are both set, and the proof is checked.
C19_Witness ==
    /\ Returned
    /\ pow.ExtractAll
    /\ given.ExtractData
    /\ path = "passed"
    /\ calls = <<"ExtractAll">>

\* Some extractor of the configured variant returns an error on the request.
SomeExtractorError == ~NoExtractorError

\* The request is malformed for a field that is empty.
ReportedEmpty ==
    path \in {"no nonce in request", "no nonce checksum in request", "no hash in request"}

Stage(fails, p, o) == [fails |-> fails, path |-> p, outcome |-> o]

DecodingAndProof ==
    <<Stage(~DecodeOk(Fields.hash), "received hash is not a valid hex string",
            "Malformed-Request"),
      Stage(~DecodeOk(Fields.nonceChecksum), "received checksum is not a valid hex string",
            "Malformed-Request"),
      Stage(~ChecksumPasses, "rejected", "Checksum-Invalid"),
      Stage(~HashIsDigest \/ ZeroBits < pow.Difficulty, "rejected", "Difficulty-Not-Met")>>

\* The steps in the order of the code: with the three extractors each
\* field is looked at as soon as it is extracted; with ExtractAll no field
\* is looked at for emptiness.
StepsInOrder ==
    IF pow.ExtractAll
    THEN <<Stage(req.all.err, "extraction failed", "Extraction-Failed")>> \o DecodingAndProof
    ELSE <<Stage(req.nonce.err, "extraction failed", "Extraction-Failed"),
           Stage(Fields.nonce = <<>>, "no nonce in request", "Malformed-Request"),
           Stage(pow.Check /\ Fields.nonceChecksum = <<>>, "no nonce checksum in request",
                 "Malformed-Request"),
           Stage(req.data.err, "extraction failed", "Extraction-Failed"),
           Stage(req.hash.err, "extraction failed", "Extraction-Failed"),
           Stage(Fields.hash = <<>>, "no hash in request", "Malformed-Request")>>
             \o DecodingAndProof

FirstFailure ==
    LET steps == StepsInOrder
        failing == {i \in 1..Len(steps) : steps[i].fails}
    IN  IF failing = {} THEN Stage(FALSE, "passed", "Accepted")
        ELSE steps[CHOOSE i \in failing : \A j \in failing : i <= j]

WithChecksum(r, nonceChecksum) ==
    IF pow.ExtractAll THEN [r EXCEPT !.all.v.nonceChecksum = nonceChecksum]
    ELSE [r EXCEPT !.nonce.v.nonceChecksum = nonceChecksum]

\* The outcome and the statuses of a run of VerifyNonceMiddleware.
OutcomeOf(out) ==
    CASE out.path = "extraction failed" -> "Extraction-Failed"
      [] out.path = "passed" -> "Accepted"
      [] out.path = "rejected" ->
            IF out.hookCalls[1].Reason = "checksum invalid" THEN "Checksum-Invalid"
            ELSE "Difficulty-Not-Met"
      [] OTHER -> "Malformed-Request"

Statuses(ctx) == [i \in 1..Len(ctx.writes) |-> ctx.writes[i].code]

\* The request with this checksum instead of its own is answered as the
\* request is.
SameAnswer(nonceChecksum) ==
    LET out == Verify(pow, WithChecksum(req, nonceChecksum), NewContext)
    IN  /\ OutcomeOf(out) = Outcome
        /\ Statuses(out.c) = Statuses(c)
        /\ IsAborted(out.c) = IsAborted(c)

\* C22 as stated: with Check not set, the request with any other checksum,
\* empty, hexadecimal or not, has the same outcome and the same status.
C22_ChecksumNoInfluence ==
    (Returned /\ ~pow.Check) =>
        \A other \in ChecksumFields(pow.Secret, Fields.nonce) : SameAnswer(other)

\* C22: with Check not set, two requests that differ only in checksums
\* that are both hexadecimal (the empty one is) have the same outcome and
\* the same status; a request that reaches the decoding of a checksum
\* that is not hexadecimal is malformed, 400.
C22_HexChecksumNoInfluence ==
    (Returned /\ ~pow.Check) =>
        /\ DecodeOk(Fields.nonceChecksum) =>
              \A other \in ChecksumFields(pow.Secret, Fields.nonce) :
                  DecodeOk(other) => SameAnswer(other)
        /\ (NoExtractorError /\ Fields.nonce # <<>> /\ Fields.hash # <<>>
                /\ DecodeOk(Fields.hash) /\ ~DecodeOk(Fields.nonceChecksum)) =>
              /\ path = "received checksum is not a valid hex string"
              /\ Malformed400

\* A proof is accepted with a checksum of bytes that are not those of the
\* nonce, Check not being set.
C22_Witness ==
    /\ Returned
    /\ ~pow.Check
    /\ Fields.nonceChecksum # <<>>
    /\ DecodeOk(Fields.nonceChecksum)
    /\ DecodeString(Fields.nonceChecksum) # ComputeChecksum(pow.Secret, Fields.nonce)
    /\ pow.Difficulty > 0
    /\ path = "passed"

\* The generator failed in step i.
GenerationFailed(i) ==
    issued[i].generated # <<>> /\ issued[i].generated[1].err

\* C23: a handler whose nonce generation fails writes no status and no
\* body, sets no header and no context entry, does not abort, and
\* records the error once on the request.
C23_FailedGenerationEmitsNothing ==
    pc = "issuing" =>
        \A i \in LastStep :
            GenerationFailed(i) =>
                /\ issued[i].after.writes = issued[i].before.writes
                /\ issued[i].after.header = issued[i].before.header
                /\ issued[i].after.Keys = issued[i].before.Keys
                /\ IsAborted(issued[i].after) = IsAborted(issued[i].before)
                /\ issued[i].after.errors =
                      Append(issued[i].before.errors, [Reason |-> "nonce generation failed"])

\* The generation fails for GenerateNonceMiddleware and again for
\* NonceHeaderMiddleware after it.
C23_Witness ==
    /\ pc = "issuing"
    /\ Len(issued) = 2
    /\ By(1) = "GenerateNonceMiddleware"
    /\ By(2) = "NonceHeaderMiddleware"
    /\ GenerationFailed(1)
    /\ GenerationFailed(2)
    /\ Len(c.errors) = 2
    /\ c.header = <<>>

\* The request in flight is the one that was answered first.
Replayed ==
    pc \in {"received", "verified", "done"} /\ served # <<>> /\ req = served[1].req

\* The handlers of the route are through with the request.
Answered == pc = "done" \/ (pc = "verified" /\ IsAborted(c))

====
